---- MODULE Spec2Model ----
(***************************************************************************)
(* SubscriptionMap (src/src/lib.rs): a mutex guarded BTreeMap from keys to *)
(* reference counted Observables, and the SubscriptionRef handles whose    *)
(* Drop decrements the count and removes the entry at zero.                *)
(*                                                                         *)
(* Every task is a thread of control that owns at most one SubscriptionRef *)
(* at a time (handles are Send, so a program holding several handles in    *)
(* one task is an interleaving of this model).  Every `.await` on the map  *)
(* lock is a separate step, so all interleavings of lock acquisitions are  *)
(* explored.  The Observable (crate async_observable) is an external       *)
(* collaborator and is modelled from its documented interface.             *)
(***************************************************************************)
EXTENDS Integers, FiniteSets, TLC

\* ------------------------------------------------------------------ bounds
NumTasks == 2
NumKeys == 2
MaxValue == 1
MaxVersion == 2

Tasks == 1..NumTasks
Keys == 1..NumKeys
Values == 0..MaxValue
\* An Observable is a heap object (Arc<Mutex<Inner>>); at most one per map
\* slot and one per handle can be alive at a time.
ObsIds == 1..(NumKeys + NumTasks)

\* A drop that forgets the decrement
WrappingSubNothing(rc) == rc

\* `rc` is a usize.  Counts are kept as their representative modulo 2^64
\* nearest to 0, so usize::MAX (0 - 1 in a build without overflow checks) is
\* -1 and `rc + 1` on it is 0 again, as in the wrapping arithmetic.
WrappingSub(rc) == rc - 1
\* Whether `rc -= 1` overflows (a panic in a build with overflow checks)
SubOverflows(rc) == rc = 0
\* The build profiles: with (debug) and without (release) overflow checks
Builds == {"debug", "release"}

NoTask == 0

\* The closures handed to modify_and_publish: FnOnce(&mut V)
Mutators == {"keep", "incr", "zero"}

Modify(f, v) ==
    CASE f = "keep" -> v
      [] f = "incr" -> (v + 1) % (MaxValue + 1)
      [] f = "zero" -> 0

VARIABLES
    map,    \* the BTreeMap<K, SubscriptionEntry<V>>: key -> [observable, rc]
    inner,  \* the shared state of every live Observable: id -> [value, version]
    lock,   \* the task holding the async_std Mutex, or NoTask
    pc,     \* where each task is
    arg,    \* the arguments of the call a task is in
    ref,    \* the SubscriptionRef a task owns: task -> [key, observable, version]
    ret     \* what the last call of a task returned (while pc = "returned")

vars == <<map, inner, lock, pc, arg, ref, ret>>

NoArg == [key |-> 0, value |-> 0, modify |-> "none"]
NoRet == [tag |-> "none", val |-> 0]

\* ------------------------------------------------------- Observable (§6)
\* Observable::new(value)
ObservableNew(value) == [value |-> value, version |-> 0]

\* Observable::modify: apply the mutation, always a new version
ObservableModify(o, f) == [value |-> Modify(f, o.value), version |-> o.version + 1]

\* Observable::publish: store the value, always a new version
ObservablePublish(o, value) == [value |-> value, version |-> o.version + 1]

\* Observable::publish_if_changed: the returned flag
ObservableChanged(o, value) == o.value # value

\* Observable::publish_if_changed: the state afterwards
ObservablePublishIfChanged(o, value) ==
    IF ObservableChanged(o, value) THEN ObservablePublish(o, value) ELSE o

\* Observable::clone: a cursor on the same stream.  The interface does not
\* fix which version a clone has seen, so any version up to the current one.
ObservableCloneVersions(o) == 0..o.version

\* Observable::latest through a handle
Latest(t) == inner[ref[t].observable].value

\* Observable::next is ready when a version newer than the cursor exists
NextReady(t) == inner[ref[t].observable].version > ref[t].version

\* --------------------------------------------------------------- helpers
\* BTreeMap::insert / BTreeMap::remove on a finite function
Put(m, k, e) == [x \in (DOMAIN m) \cup {k} |-> IF x = k THEN e ELSE m[x]]
Del(m, k) == [x \in (DOMAIN m) \ {k} |-> m[x]]

\* The Observables some map slot or some handle still refers to; the others
\* are freed (Arc).
Referenced(m, r) ==
    {m[k].observable : k \in DOMAIN m} \cup {r[t].observable : t \in DOMAIN r}
Collect(i, m, r) == [o \in (DOMAIN i) \cap Referenced(m, r) |-> i[o]]

\* A map that overwrites: BTreeMap::insert in place of entry().or_insert()
InsertAlways(m, k, e) == Put(m, k, e)

\* A map that replaces an entry nobody references
InsertIfUnreferenced(m, k, e) == IF k \in DOMAIN m /\ m[k].rc > 0 THEN m ELSE Put(m, k, e)

\* BTreeMap's entry(key).or_insert(entry)
OrInsert(m, k, e) == IF k \in DOMAIN m THEN m ELSE Put(m, k, e)

\* SubscriptionEntry::new(value), with the Observable allocated at o
SubscriptionEntryNew(o) == [observable |-> o, rc |-> 0]

\* A handle constructor that forgets the increment
RefCountKept(rc) == rc

\* A handle constructor that counts twice
RefCountUpTwice(rc) == rc + 2

\* `entry.rc += 1` in SubscriptionRef::new
RefCountUp(rc) == rc + 1

\* A last-handle test that is off by one: `if entry.rc == 1`
IsLastOffByOne(rc) == rc = 1

\* `if entry.rc == 0` in drop: this was the last handle
IsLast(rc) == rc = 0

\* A remove without its assertion
RemoveAssertNever(e) == FALSE

\* `assert!(entry.rc == 0, ..)` in remove fails
RemoveAssertFails(e) == e.rc # 0

\* A remove that forgets to delete the slot
MapRemoveNothing(m, k) == m

\* A remove that clears the whole map
MapRemoveAll(m, k) == [x \in {} |-> m[x]]

\* `map.remove(key)` in remove
MapRemove(m, k) == Del(m, k)

\* A lookup failure reported as Ok(false) instead of an error
NotFoundAsOkFalse == [tag |-> "Ok", val |-> 0]

\* `.with_context(..)?` in publish_if_changed and modify_and_publish: the
\* error returned for a key that is not in the map
NotFound == [tag |-> "NotFound", val |-> 0]

\* `entry.observable.publish_if_changed(value)`: the flag returned in Ok(..)
EntryPublishIfChangedResult(o, value) == [tag |-> "Ok", val |-> IF ObservableChanged(o, value) THEN 1 ELSE 0]

\* A map that calls the Observable's unconditional publish
EntryPublishAlways(o, value) == ObservablePublish(o, value)

\* `entry.observable.publish_if_changed(value)`: the Observable afterwards
EntryPublishIfChanged(o, value) == ObservablePublishIfChanged(o, value)

\* A map that publishes the mutated value only if it differs
EntryModifyIfChanged(o, f) == ObservablePublishIfChanged(o, Modify(f, o.value))

\* `entry.observable.modify(|v| { modify(v); })`: the Observable afterwards
EntryModify(o, f) == ObservableModify(o, f)

\* A guard that outlives get_or_insert (kept with the handle)
GuardKept(t) == t

\* The MutexGuard `map` goes out of scope at the end of get_or_insert: the
\* holder of the lock afterwards
GuardDropped(t) == NoTask

\* The address a new Observable is allocated at
FreshObs == CHOOSE o \in ObsIds : o \notin DOMAIN inner /\ \A p \in ObsIds : p \notin DOMAIN inner => o <= p

\* The calls in flight that will still create a new version
Publishing == {t \in Tasks : pc[t] \in {"pub_lock", "pub_body", "mod_lock", "mod_body"}}
\* Versions stay below MaxVersion: a call that may publish starts only if
\* every call in flight can still publish.
CanPublish ==
    /\ Cardinality(Publishing) < MaxVersion
    /\ \A o \in DOMAIN inner : inner[o].version + Cardinality(Publishing) < MaxVersion

Init ==
    /\ map = [k \in {} |-> 0]
    /\ inner = [o \in {} |-> 0]
    /\ lock = NoTask
    /\ pc = [t \in Tasks |-> "idle"]
    /\ arg = [t \in Tasks |-> NoArg]
    /\ ref = [t \in {} |-> 0]
    /\ ret = [t \in Tasks |-> NoRet]

\* self.0.lock().await: the step that gets the mutex
Acquire(t, from, to) ==
    /\ pc[t] = from
    /\ lock = NoTask
    /\ lock' = t
    /\ pc' = [pc EXCEPT ![t] = to]
    /\ UNCHANGED <<map, inner, arg, ref, ret>>

\* The call is over: the caller has taken its result
Return(t) ==
    /\ pc[t] = "returned"
    /\ pc' = [pc EXCEPT ![t] = "idle"]
    /\ ret' = [ret EXCEPT ![t] = NoRet]
    /\ arg' = [arg EXCEPT ![t] = NoArg]
    /\ UNCHANGED <<map, inner, lock, ref>>

\* ----------------------------------------------------------- get_or_insert
GetOrInsertCall(t, k, v) ==
    /\ pc[t] = "idle"
    /\ t \notin DOMAIN ref
    /\ pc' = [pc EXCEPT ![t] = "goi_lock"]
    /\ arg' = [arg EXCEPT ![t] = [key |-> k, value |-> v, modify |-> "none"]]
    /\ UNCHANGED <<map, inner, lock, ref, ret>>

GetOrInsertLock(t) == Acquire(t, "goi_lock", "goi_entry")

\* map.entry(key).or_insert(SubscriptionEntry::new(value)): the entry is
\* built first, and dropped at once with its Observable if the key is present
GetOrInsertEntry(t) ==
    /\ pc[t] = "goi_entry"
    /\ lock = t
    /\ map' = OrInsert(map, arg[t].key, SubscriptionEntryNew(FreshObs))
    /\ inner' = Collect(Put(inner, FreshObs, ObservableNew(arg[t].value)), map', ref)
    /\ pc' = [pc EXCEPT ![t] = "goi_ref"]
    /\ UNCHANGED <<lock, arg, ref, ret>>

\* SubscriptionRef::new(key, self.clone(), entry), then the guard is dropped
GetOrInsertRef(t) ==
    /\ pc[t] = "goi_ref"
    /\ lock = t
    /\ LET k == arg[t].key
           e == map[k]
       IN /\ map' = [map EXCEPT ![k].rc = RefCountUp(e.rc)]
          /\ \E c \in ObservableCloneVersions(inner[e.observable]) :
                ref' = Put(ref, t, [key |-> k, observable |-> e.observable, version |-> c])
    /\ lock' = GuardDropped(t)
    /\ pc' = [pc EXCEPT ![t] = "idle"]
    /\ arg' = [arg EXCEPT ![t] = NoArg]
    /\ UNCHANGED <<inner, ret>>

\* ------------------------------------------------------ publish_if_changed
PublishIfChangedCall(t, k, v) ==
    /\ pc[t] = "idle"
    /\ CanPublish
    /\ pc' = [pc EXCEPT ![t] = "pub_lock"]
    /\ arg' = [arg EXCEPT ![t] = [key |-> k, value |-> v, modify |-> "none"]]
    /\ UNCHANGED <<map, inner, lock, ref, ret>>

PublishIfChangedLock(t) == Acquire(t, "pub_lock", "pub_body")

\* map.get_mut(key) with_context ...?; Ok(entry.observable.publish_if_changed(value))
PublishIfChangedBody(t) ==
    /\ pc[t] = "pub_body"
    /\ lock = t
    /\ LET k == arg[t].key
           v == arg[t].value
       IN IF k \notin DOMAIN map
          THEN /\ ret' = [ret EXCEPT ![t] = NotFound]
               /\ UNCHANGED inner
          ELSE LET o == map[k].observable
               IN /\ ret' = [ret EXCEPT ![t] = EntryPublishIfChangedResult(inner[o], v)]
                  /\ inner' = [inner EXCEPT ![o] = EntryPublishIfChanged(inner[o], v)]
    /\ lock' = NoTask
    /\ pc' = [pc EXCEPT ![t] = "returned"]
    /\ UNCHANGED <<map, arg, ref>>

\* ------------------------------------------------------ modify_and_publish
ModifyAndPublishCall(t, k, f) ==
    /\ pc[t] = "idle"
    /\ CanPublish
    /\ pc' = [pc EXCEPT ![t] = "mod_lock"]
    /\ arg' = [arg EXCEPT ![t] = [key |-> k, value |-> 0, modify |-> f]]
    /\ UNCHANGED <<map, inner, lock, ref, ret>>

ModifyAndPublishLock(t) == Acquire(t, "mod_lock", "mod_body")

\* map.get_mut(key) with_context ...?; entry.observable.modify(..); Ok(())
ModifyAndPublishBody(t) ==
    /\ pc[t] = "mod_body"
    /\ lock = t
    /\ LET k == arg[t].key
       IN IF k \notin DOMAIN map
          THEN /\ ret' = [ret EXCEPT ![t] = NotFound]
               /\ UNCHANGED inner
          ELSE LET o == map[k].observable
               IN /\ ret' = [ret EXCEPT ![t] = [tag |-> "Unit", val |-> 0]]
                  /\ inner' = [inner EXCEPT ![o] = EntryModify(inner[o], arg[t].modify)]
    /\ lock' = NoTask
    /\ pc' = [pc EXCEPT ![t] = "returned"]
    /\ UNCHANGED <<map, arg, ref>>

\* ------------------------------------------------- Drop for SubscriptionRef
\* drop(&mut self) starts: block_on(self.owner.0.lock())
DropCall(t) ==
    /\ pc[t] = "idle"
    /\ t \in DOMAIN ref
    /\ pc' = [pc EXCEPT ![t] = "drop_lock"]
    /\ arg' = [arg EXCEPT ![t] = [key |-> ref[t].key, value |-> 0, modify |-> "none"]]
    /\ UNCHANGED <<map, inner, lock, ref, ret>>

DropLock(t) == Acquire(t, "drop_lock", "drop_entry")

\* map.get_mut(&self.key); entry.rc -= 1; if entry.rc == 0 { drop(map); .. }
DropEntry(t) ==
    /\ pc[t] = "drop_entry"
    /\ lock = t
    /\ lock' = NoTask
    /\ LET k == arg[t].key
       IN IF k \notin DOMAIN map
          THEN \* None: log::error!, return
               /\ pc' = [pc EXCEPT ![t] = "returned"]
               /\ ret' = [ret EXCEPT ![t] = [tag |-> "LoggedMissingEntry", val |-> 0]]
               /\ ref' = Del(ref, t)
               /\ inner' = Collect(inner, map, ref')
               /\ UNCHANGED <<map, arg>>
          ELSE \E build \in Builds :
               IF SubOverflows(map[k].rc) /\ build = "debug"
               THEN \* attempt to subtract with overflow: the guard and the
                    \* handle are dropped while unwinding
                    /\ pc' = [pc EXCEPT ![t] = "panicked"]
                    /\ ref' = Del(ref, t)
                    /\ inner' = Collect(inner, map, ref')
                    /\ UNCHANGED <<map, arg, ret>>
               ELSE /\ map' = [map EXCEPT ![k].rc = WrappingSub(map[k].rc)]
                    /\ IF IsLast(map'[k].rc)
                       THEN \* drop(map); block_on(self.owner.remove(&self.key))
                            /\ pc' = [pc EXCEPT ![t] = "remove_lock"]
                            /\ UNCHANGED <<inner, arg, ref, ret>>
                       ELSE /\ pc' = [pc EXCEPT ![t] = "returned"]
                            /\ ret' = [ret EXCEPT ![t] = [tag |-> "Released", val |-> 0]]
                            /\ ref' = Del(ref, t)
                            /\ inner' = Collect(inner, map', ref')
                            /\ UNCHANGED arg

\* ------------------------------------------------------------------ remove
RemoveLock(t) == Acquire(t, "remove_lock", "remove_body")

\* map.get(key) with_context ...?; assert!(entry.rc == 0); map.remove(key);
\* back in drop: if let Err(e) = res { log::error!(..) }
RemoveBody(t) ==
    /\ pc[t] = "remove_body"
    /\ lock = t
    /\ lock' = NoTask
    /\ ref' = Del(ref, t)
    /\ LET k == arg[t].key
       IN IF k \notin DOMAIN map
          THEN \* Err(unable remove not present key), logged by drop
               /\ pc' = [pc EXCEPT ![t] = "returned"]
               /\ ret' = [ret EXCEPT ![t] = [tag |-> "LoggedRemoveError", val |-> 0]]
               /\ inner' = Collect(inner, map, ref')
               /\ UNCHANGED <<map, arg>>
          ELSE IF RemoveAssertFails(map[k])
          THEN \* panic "invalid removal of referenced subscription at {key}";
               \* the guard is dropped while unwinding
               /\ pc' = [pc EXCEPT ![t] = "panicked"]
               /\ inner' = Collect(inner, map, ref')
               /\ UNCHANGED <<map, arg, ret>>
          ELSE /\ map' = MapRemove(map, k)
               /\ pc' = [pc EXCEPT ![t] = "returned"]
               /\ ret' = [ret EXCEPT ![t] = [tag |-> "Removed", val |-> 0]]
               /\ inner' = Collect(inner, map', ref')
               /\ UNCHANGED arg

\* ------------------------------------- the Observable through Deref/DerefMut
\* subscription.next().await starts: no map lock is involved
NextCall(t) ==
    /\ pc[t] = "idle"
    /\ t \in DOMAIN ref
    /\ pc' = [pc EXCEPT ![t] = "next_wait"]
    /\ UNCHANGED <<map, inner, lock, arg, ref, ret>>

\* next() resolves with the newest value and advances the cursor
NextResolve(t) ==
    /\ pc[t] = "next_wait"
    /\ NextReady(t)
    /\ ref' = [ref EXCEPT ![t].version = inner[ref[t].observable].version]
    /\ ret' = [ret EXCEPT ![t] = [tag |-> "Value", val |-> Latest(t)]]
    /\ pc' = [pc EXCEPT ![t] = "returned"]
    /\ UNCHANGED <<map, inner, lock, arg>>

\* entry.publish_if_changed(state) on the handle, as the example's writer does
RefPublishIfChanged(t, v) ==
    /\ pc[t] = "idle"
    /\ t \in DOMAIN ref
    /\ CanPublish
    /\ inner' = [inner EXCEPT ![ref[t].observable] = ObservablePublishIfChanged(@, v)]
    /\ UNCHANGED <<map, lock, pc, arg, ref, ret>>

Next ==
    \E t \in Tasks :
        \/ \E k \in Keys, v \in Values : GetOrInsertCall(t, k, v)
        \/ GetOrInsertLock(t)
        \/ GetOrInsertEntry(t)
        \/ GetOrInsertRef(t)
        \/ \E k \in Keys, v \in Values : PublishIfChangedCall(t, k, v)
        \/ PublishIfChangedLock(t)
        \/ PublishIfChangedBody(t)
        \/ \E k \in Keys, f \in Mutators : ModifyAndPublishCall(t, k, f)
        \/ ModifyAndPublishLock(t)
        \/ ModifyAndPublishBody(t)
        \/ DropCall(t)
        \/ DropLock(t)
        \/ DropEntry(t)
        \/ RemoveLock(t)
        \/ RemoveBody(t)
        \/ NextCall(t)
        \/ NextResolve(t)
        \/ \E v \in Values : RefPublishIfChanged(t, v)
        \/ Return(t)

Spec == Init /\ [][Next]_vars

\* Fair scheduling: a task that holds the lock runs on (its span under the lock
\* is synchronous), and a task waiting for the mutex gets it eventually.
Fairness ==
    \A t \in Tasks :
        /\ WF_vars(GetOrInsertEntry(t))
        /\ WF_vars(GetOrInsertRef(t))
        /\ WF_vars(PublishIfChangedBody(t))
        /\ WF_vars(ModifyAndPublishBody(t))
        /\ WF_vars(DropEntry(t))
        /\ WF_vars(RemoveBody(t))
        /\ SF_vars(GetOrInsertLock(t))
        /\ SF_vars(PublishIfChangedLock(t))
        /\ SF_vars(ModifyAndPublishLock(t))
        /\ SF_vars(DropLock(t))
        /\ SF_vars(RemoveLock(t))

FairSpec == Spec /\ Fairness

\* ------------------------------------------------------------ properties
\* The handle of t is live: issued by get_or_insert, and its destruction has
\* not yet performed the decrement
Live(t) == t \in DOMAIN ref /\ pc[t] \notin {"remove_lock", "remove_body"}
LiveOn(k) == {t \in Tasks : Live(t) /\ ref[t].key = k}
\* The live handles of k after the step
LiveOnNext(k) == {t \in Tasks : Live(t)' /\ ref'[t].key = k}

\* t is inside a map operation or a destruction on key k
OnKey(t, k) ==
    /\ pc[t] \in {"goi_lock", "goi_entry", "goi_ref", "pub_lock", "pub_body", "mod_lock",
                  "mod_body", "drop_lock", "drop_entry", "remove_lock", "remove_body"}
    /\ arg[t].key = k

\* A destruction has decremented k's count to 0 and has not yet run its remove
RemovePending(k) == \E t \in Tasks : pc[t] \in {"remove_lock", "remove_body"} /\ arg[t].key = k

\* No map operation, destruction or wait is in progress
Quiescent == \A t \in Tasks : pc[t] \in {"idle", "returned", "panicked"}

\* C1: when a destruction returns, no live handle is left on its key and no
\* other task is inside an operation on that key, the key is absent from the map.
C1_LastReleaseRemovesKey ==
    [][\A t \in Tasks :
        (/\ pc[t] \in {"drop_entry", "remove_body"}
         /\ pc'[t] = "returned"
         /\ LiveOnNext(arg[t].key) = {}
         /\ \A u \in Tasks \ {t} : ~OnKey(u, arg[t].key))
        => arg[t].key \notin DOMAIN map']_vars

\* C1: the only handle of a key was released while every other task was idle,
\* and the key is gone
C1_Witness ==
    \E t \in Tasks :
        /\ pc[t] = "returned"
        /\ ret[t].tag = "Removed"
        /\ arg[t].key \notin DOMAIN map
        /\ \A u \in Tasks \ {t} : pc[u] = "idle" /\ u \notin DOMAIN ref

\* C2: no destruction ever panics: the assertion of remove never fires in the
\* remove a destruction issues.
C2_DestructionNeverPanics == \A t \in Tasks : pc[t] # "panicked"

\* C3: whenever no handle is live and no operation or destruction is in
\* progress, the map is empty.
C3_NoLeak == (Quiescent /\ DOMAIN ref = {}) => DOMAIN map = {}

\* C3: the map is empty again after a run in which a destruction panicked
C3_Witness ==
    /\ Quiescent
    /\ DOMAIN ref = {}
    /\ DOMAIN map = {}
    /\ \E t \in Tasks : pc[t] = "panicked"
    /\ \E t \in Tasks : pc[t] = "returned" /\ ret[t].tag = "Removed"

\* C4 as stated: whenever the map lock is free, every key in the map has a
\* count of at least 1.
C4_Original == lock = NoTask => \A k \in DOMAIN map : map[k].rc >= 1

\* C4 amended: whenever the map lock is free, every key in the map has a count
\* of at least 1, or a destruction that decremented it to 0 has yet to remove it.
C4_PresentIffCounted ==
    lock = NoTask => \A k \in DOMAIN map : map[k].rc >= 1 \/ (map[k].rc = 0 /\ RemovePending(k))

\* C4: the lock is free and a count-0 entry waits for its remove
C4_Witness ==
    /\ lock = NoTask
    /\ \E k \in DOMAIN map : map[k].rc = 0 /\ RemovePending(k)

\* C5: whenever the map lock is free, the count of every key in the map is the
\* number of live handles of that key.
C5_CountIsLiveHandles ==
    lock = NoTask => \A k \in DOMAIN map : map[k].rc = Cardinality(LiveOn(k))

\* C5: one of two handles of a key was released: the key is present with count 1
C5_Witness ==
    \E t \in Tasks :
        /\ pc[t] = "returned"
        /\ ret[t].tag = "Released"
        /\ lock = NoTask
        /\ arg[t].key \in DOMAIN map
        /\ map[arg[t].key].rc = 1
        /\ Cardinality(LiveOn(arg[t].key)) = 1

\* C6: the Observable of a key that stays in the map is never replaced; a
\* get_or_insert creates an entry only for an absent key, from its own initial
\* value, and leaves a present one alone; and the handle it returns is on the
\* entry's Observable, as is every other live handle of the key, the count being
\* their number.
C6_ExactlyOnceCreation ==
    [][/\ \A k \in (DOMAIN map) \cap (DOMAIN map') : map'[k].observable = map[k].observable
       /\ \A t \in Tasks :
            (pc[t] = "goi_entry" /\ pc'[t] = "goi_ref") =>
                LET k == arg[t].key
                IN IF k \in DOMAIN map
                   THEN map' = map /\ inner' = inner
                   ELSE /\ DOMAIN map' = (DOMAIN map) \cup {k}
                        /\ map'[k].observable \notin DOMAIN inner
                        /\ inner'[map'[k].observable] = [value |-> arg[t].value, version |-> 0]
       /\ \A t \in Tasks :
            (pc[t] = "goi_ref" /\ pc'[t] = "idle") =>
                LET k == arg[t].key
                IN /\ t \in LiveOnNext(k)
                   /\ \A u \in LiveOnNext(k) : ref'[u].observable = map'[k].observable
                   /\ map'[k].rc = Cardinality(LiveOnNext(k))]_vars

\* C6: two tasks are in get_or_insert on the same key at once; the one holding
\* the lock has just created the entry, the other waits for the lock
C6_Witness ==
    \E t, u \in Tasks :
        /\ pc[t] = "goi_ref"
        /\ pc[u] = "goi_lock"
        /\ arg[t].key = arg[u].key
        /\ arg[t].value # arg[u].value
        /\ map[arg[t].key].rc = 0

\* C7 as stated: publish_if_changed or modify_and_publish on a key that has no
\* live handle returns NotFound and leaves the map unchanged.
C7_Original ==
    [][\A t \in Tasks :
        (/\ pc[t] \in {"pub_body", "mod_body"}
         /\ pc'[t] = "returned"
         /\ LiveOn(arg[t].key) = {})
        => (ret'[t].tag = "NotFound" /\ map' = map /\ inner' = inner)]_vars

\* C7 amended: publish_if_changed or modify_and_publish on a key that has no
\* live handle, and no destruction between its decrement to 0 and its remove,
\* returns NotFound and leaves the map unchanged.
C7_NotFoundWithoutHandle ==
    [][\A t \in Tasks :
        (/\ pc[t] \in {"pub_body", "mod_body"}
         /\ pc'[t] = "returned"
         /\ LiveOn(arg[t].key) = {}
         /\ ~RemovePending(arg[t].key))
        => (ret'[t].tag = "NotFound" /\ map' = map /\ inner' = inner)]_vars

\* C7: a publish or modify on a key without handle has returned NotFound while
\* another task is inside an operation on the same key
C7_Witness ==
    \E t, u \in Tasks :
        /\ pc[t] = "returned"
        /\ ret[t].tag = "NotFound"
        /\ LiveOn(arg[t].key) = {}
        /\ u # t
        /\ OnKey(u, arg[t].key)

\* C8: publish_if_changed on a key with a live handle: with the current value
\* it returns false, changes no Observable and leaves every blocked next() of
\* the key's handles blocked; with another value it returns true, the stored
\* value is that value and every waiting next() of the key's handles is ready
\* to resolve to it.
C8_PublishIfChanged ==
    [][\A t \in Tasks :
        (/\ pc[t] = "pub_body"
         /\ pc'[t] = "returned"
         /\ LiveOn(arg[t].key) # {})
        => /\ arg[t].key \in DOMAIN map
           /\ LET k == arg[t].key
                  v == arg[t].value
                  o == map[k].observable
              IN IF inner[o].value = v
                 THEN /\ ret'[t] = [tag |-> "Ok", val |-> 0]
                      /\ inner' = inner
                      /\ \A u \in LiveOn(k) :
                            (pc[u] = "next_wait" /\ ~NextReady(u)) => ~NextReady(u)'
                 ELSE /\ ret'[t] = [tag |-> "Ok", val |-> 1]
                      /\ inner'[map'[k].observable].value = v
                      /\ \A u \in LiveOn(k) :
                            pc[u] = "next_wait" => (NextReady(u)' /\ Latest(u)' = v)]_vars

\* C8: a publish returned true and woke a next() that was blocked on the key
C8_Witness ==
    \E t, u \in Tasks :
        /\ pc[t] = "returned"
        /\ ret[t] = [tag |-> "Ok", val |-> 1]
        /\ pc[u] = "next_wait"
        /\ Live(u)
        /\ ref[u].key = arg[t].key
        /\ ref[u].version + 1 = inner[ref[u].observable].version
        /\ Latest(u) = arg[t].value

\* C9: modify_and_publish on a key with a live handle makes a new version,
\* whatever the mutation, every waiting next() of the key's handles is ready,
\* and latest() of every handle of the key is the mutated value.
C9_ModifyAlwaysPublishes ==
    [][\A t \in Tasks :
        (/\ pc[t] = "mod_body"
         /\ pc'[t] = "returned"
         /\ LiveOn(arg[t].key) # {})
        => /\ arg[t].key \in DOMAIN map
           /\ LET k == arg[t].key
                  o == map[k].observable
              IN /\ ret'[t].tag = "Unit"
                 /\ inner'[o].version = inner[o].version + 1
                 /\ \A u \in LiveOn(k) :
                        /\ pc[u] = "next_wait" => NextReady(u)'
                        /\ Latest(u)' = Modify(arg[t].modify, inner[o].value)]_vars

\* C9: a mutation that keeps the value has woken a next() blocked on the key
C9_Witness ==
    \E t, u \in Tasks :
        /\ pc[t] = "returned"
        /\ ret[t].tag = "Unit"
        /\ arg[t].modify = "keep"
        /\ pc[u] = "next_wait"
        /\ Live(u)
        /\ ref[u].key = arg[t].key
        /\ ref[u].version + 1 = inner[ref[u].observable].version

\* C10: a remove that finds its key with a count of 1 or more panics and
\* leaves the map as it is.
C10_RemoveReferencedPanics ==
    [][\A t \in Tasks :
        (/\ pc[t] = "remove_body"
         /\ pc'[t] # "remove_body"
         /\ arg[t].key \in DOMAIN map
         /\ map[arg[t].key].rc >= 1)
        => (pc'[t] = "panicked" /\ map' = map)]_vars

\* C10: a remove has panicked and the referenced entry is still in the map
C10_Witness ==
    \E t \in Tasks :
        /\ pc[t] = "panicked"
        /\ arg[t].key \in DOMAIN map
        /\ map[arg[t].key].rc >= 1
        /\ LiveOn(arg[t].key) # {}

\* The places where a task holds the map lock
InCriticalSection(t) ==
    pc[t] \in {"goi_entry", "goi_ref", "pub_body", "mod_body", "drop_entry", "remove_body"}

\* C11: a task suspended in next() never holds the map lock; the lock is held
\* only inside the synchronous span of a map operation.
C11_NoLockAcrossNext ==
    \A t \in Tasks :
        /\ pc[t] = "next_wait" => lock # t
        /\ lock = t => InCriticalSection(t)

\* C11: a subscriber is blocked in next() while another task holds the lock
C11_Witness ==
    \E t, u \in Tasks :
        /\ pc[t] = "next_wait"
        /\ ~NextReady(t)
        /\ u # t
        /\ lock = u
        /\ InCriticalSection(u)

\* C12: the key of every live handle is in the map.
C12_LiveHandleKeyPresent == \A t \in Tasks : Live(t) => ref[t].key \in DOMAIN map

\* C12: a handle is live on a key for which another destruction's remove is
\* still to run
C12_Witness ==
    \E t \in Tasks :
        /\ Live(t)
        /\ RemovePending(ref[t].key)
        /\ ref[t].key \in DOMAIN map

\* C13: a get_or_insert that finds its key present with count 0 (a destruction
\* has decremented and not yet removed) leaves the entry and its Observable as
\* they are, raises the count to 1 and returns a handle on that same
\* Observable, whose value is the old one and not the initial value passed.
C13_Resurrection ==
    [][\A t \in Tasks :
        /\ (/\ pc[t] = "goi_entry"
            /\ pc'[t] = "goi_ref"
            /\ arg[t].key \in DOMAIN map
            /\ map[arg[t].key].rc = 0)
           => (map' = map /\ inner' = inner /\ RemovePending(arg[t].key))
        /\ (/\ pc[t] = "goi_ref"
            /\ pc'[t] = "idle"
            /\ map[arg[t].key].rc = 0)
           => LET k == arg[t].key
                  o == map[k].observable
              IN /\ map'[k] = [observable |-> o, rc |-> 1]
                 /\ ref'[t].key = k
                 /\ ref'[t].observable = o
                 /\ inner' = inner]_vars

\* C13: a handle was issued on a count-0 entry whose remove is still pending;
\* the Observable kept its published version
C13_Witness ==
    \E t \in Tasks :
        /\ Live(t)
        /\ pc[t] = "idle"
        /\ RemovePending(ref[t].key)
        /\ ref[t].key \in DOMAIN map
        /\ map[ref[t].key].rc = 1
        /\ ref[t].observable = map[ref[t].key].observable
        /\ inner[ref[t].observable].version = MaxVersion

\* C14: the remove a destruction issues always finds its key in the map.
C14_RemoveFindsKey == \A t \in Tasks : pc[t] = "remove_body" => arg[t].key \in DOMAIN map

\* C15: a destruction that holds the lock finds its entry, with a count of at
\* least 1, and no destruction has ever logged a missing entry.
C15_DropFindsEntry ==
    \A t \in Tasks :
        /\ pc[t] = "drop_entry" => (arg[t].key \in DOMAIN map /\ map[arg[t].key].rc >= 1)
        /\ ret[t].tag # "LoggedMissingEntry"
        /\ \A k \in DOMAIN map : map[k].rc >= 0

\* C15: a destruction holds the lock on a key for which an earlier
\* destruction's remove is still to run
C15_Witness ==
    \E t, u \in Tasks :
        /\ pc[t] = "drop_entry"
        /\ lock = t
        /\ u # t
        /\ pc[u] = "remove_lock"
        /\ arg[u].key = arg[t].key
        /\ map[arg[t].key].rc = 1

\* The places where a task waits for the map lock
WaitsForLock(t) == pc[t] \in {"goi_lock", "pub_lock", "mod_lock", "drop_lock", "remove_lock"}

\* t has started a map operation or a destruction and has not left it
Started(t) == WaitsForLock(t) \/ InCriticalSection(t)

\* C16: a task that waits for the map lock (the remove of a destruction
\* included) does not hold it, the lock is never held by a task that cannot
\* run on, and every started get_or_insert, publish_if_changed,
\* modify_and_publish and destruction goes on until it returns.
C16_DeadlockFree ==
    /\ [](\A t \in Tasks : WaitsForLock(t) => lock # t)
    /\ [](lock # NoTask => InCriticalSection(lock))
    /\ [][\A t \in Tasks : Started(t) => (Started(t)' \/ pc'[t] \in {"idle", "returned"})]_vars

\* Under fair scheduling every started operation or destruction ends, by
\* returning or by the panic of remove's assertion
Terminates == \A t \in Tasks : Started(t) ~> (pc[t] \in {"idle", "returned", "panicked"})

\* Locking alone never blocks: the lock is free or held by a task that runs on,
\* and no task waits for the lock it holds
LockDiscipline ==
    /\ \A t \in Tasks : WaitsForLock(t) => lock # t
    /\ lock # NoTask => InCriticalSection(lock)

\* C17: every live handle holds the Observable of the entry stored under its
\* key.
C17_HandlesShareObservable ==
    \A t \in Tasks :
        Live(t) => /\ ref[t].key \in DOMAIN map
                   /\ ref[t].observable = map[ref[t].key].observable

\* C17: a publish through the map returned true and two live handles of the
\* key both read the published value
C17_Witness ==
    \E t, u, w \in Tasks :
        /\ pc[t] = "returned"
        /\ ret[t] = [tag |-> "Ok", val |-> 1]
        /\ u # w
        /\ Live(u) /\ ref[u].key = arg[t].key
        /\ Live(w) /\ ref[w].key = arg[t].key
        /\ Latest(u) = arg[t].value
        /\ Latest(w) = arg[t].value

\* The waiters ready to resolve their next()
ReadyWaiters == {u \in Tasks : pc[u] = "next_wait" /\ NextReady(u)}

\* C18: a get_or_insert that finds its key present changes neither the map nor
\* any Observable when it looks the key up; when it returns, no Observable has
\* changed, no waiter has become ready, the count of the key is up by exactly 1,
\* nothing else in the map has changed, and latest() of the returned handle is
\* the entry's value.
C18_PresentKeyIgnoresValue ==
    [][\A t \in Tasks :
        /\ (pc[t] = "goi_entry" /\ pc'[t] = "goi_ref" /\ arg[t].key \in DOMAIN map)
           => (map' = map /\ inner' = inner /\ ReadyWaiters' = ReadyWaiters)
        /\ (pc[t] = "goi_ref" /\ pc'[t] = "idle")
           => LET k == arg[t].key
              IN /\ inner' = inner
                 /\ ReadyWaiters' = ReadyWaiters
                 /\ map' = [map EXCEPT ![k].rc = map[k].rc + 1]
                 /\ Latest(t)' = inner[map[k].observable].value]_vars

\* C18: a get_or_insert found its key present with a value other than the
\* initial value it passed, and is about to return its handle
C18_Witness ==
    \E t \in Tasks :
        /\ pc[t] = "goi_ref"
        /\ map[arg[t].key].rc >= 1
        /\ inner[map[arg[t].key].observable].value # arg[t].value
        /\ inner[map[arg[t].key].observable].version >= 1

\* Presence, count, value and version of the entry of key k
EntryState(k) ==
    IF k \in DOMAIN map
    THEN <<TRUE, map[k].rc, inner[map[k].observable].value, inner[map[k].observable].version>>
    ELSE <<FALSE, 0, 0, 0>>

\* The key the step is about if it is a step of task t: that of its call in
\* progress, or that of its handle for a publish on the handle
StepKeys(t) ==
    IF pc'[t] # pc[t] THEN {arg[t].key}
    ELSE IF pc' = pc /\ pc[t] = "idle" /\ t \in DOMAIN ref THEN {ref[t].key}
    ELSE {}

\* C19: a step changes the presence, count, value or version of a key's entry
\* only if it is a step of an operation on that key.
C19_OtherKeysUntouched ==
    [][\A k \in Keys :
        EntryState(k)' # EntryState(k) =>
            \E t \in Tasks :
                /\ k \in StepKeys(t)
                /\ \A u \in Tasks \ {t} : pc'[u] = pc[u] /\ arg'[u] = arg[u]
                /\ \A j \in Keys \ {k} : EntryState(j)' = EntryState(j)]_vars

\* C19: the last handle of one key was released and the key removed, while
\* another key is still present with its handle
C19_Witness ==
    \E t, u \in Tasks :
        /\ pc[t] = "returned"
        /\ ret[t].tag = "Removed"
        /\ arg[t].key \notin DOMAIN map
        /\ Live(u)
        /\ ref[u].key # arg[t].key
        /\ ref[u].key \in DOMAIN map
        /\ map[ref[u].key].rc = 1

====
